---------------------------- MODULE Spec2Model ----------------------------
(***************************************************************************)
(* A model of the skin tone colour advisor: the colour model               *)
(* (app/models/color_model.py), the image service                          *)
(* (app/services/image_service.py), the error type                         *)
(* (app/core/error_handling.py) and the upload settings                    *)
(* (app/core/config.py).                                                   *)
(*                                                                         *)
(* Strings the code takes apart (file names, paths, hex codes) are         *)
(* sequences of one-character strings, so that split('.'), lower() and the *)
(* :02x format are computed and not assumed.  Colours are <<r, g, b>>.     *)
(***************************************************************************)
EXTENDS Integers, Sequences, FiniteSets, TLC

VARIABLES
    call,       \* the call of a pure function under check: [fn, arg, ret, done]
    fs,         \* the upload directory: path -> content of the file
    procs,      \* per thread: the service call it runs, its position and locals
    ncalls,     \* number of service calls started so far (the call ids)
    generated,  \* history: the (call, file name) pairs made with uuid.uuid4()
    writes,     \* history: the (call, path, content) file writes
    reads       \* history: the (call, path) file reads

vars == <<call, fs, procs, ncalls, generated, writes, reads>>

(***************************************************************************)
(* Bounds of the model.                                                    *)
(***************************************************************************)
\* The sampled colours split each channel 0..255 into this many parts.
GridParts == 4
\* Lightness L* is kept in units of 1/LScale.
LScale == 4
\* Largest number of pixels of an image.
MaxPixels == 2
\* The values uuid.uuid4() can take.
MaxUuid == 2
\* Service calls started in one behaviour of Spec.
MaxCalls == 3

Max(a, b) == IF a >= b THEN a ELSE b
Min(a, b) == IF a <= b THEN a ELSE b

(***************************************************************************)
(* app/models/color_model.py                                               *)
(***************************************************************************)
VERY_LIGHT == "Very Light"
LIGHT == "Light"
MEDIUM_LIGHT == "Medium Light"
MEDIUM == "Medium"
MEDIUM_DARK == "Medium Dark"
DARK == "Dark"
VERY_DARK == "Very Dark"

\* class SkinTone, from the lightest to the darkest.
SkinToneOrder ==
    <<VERY_LIGHT, LIGHT, MEDIUM_LIGHT, MEDIUM, MEDIUM_DARK, DARK, VERY_DARK>>

SkinTone == {SkinToneOrder[i] : i \in DOMAIN SkinToneOrder}

\* ColorPalette.RECOMMENDATIONS, a dict: category order is insertion order.
RECOMMENDATIONS ==
    [t \in SkinTone |->
       CASE t = VERY_LIGHT ->
              [clothing |-> << <<0,0,0>>, <<0,0,128>>, <<128,0,0>>, <<0,100,0>>,
                               <<128,0,128>> >>,
               makeup   |-> << <<255,182,193>>, <<255,228,225>>, <<255,192,203>>,
                               <<219,112,147>> >>]
         [] t = LIGHT ->
              [clothing |-> << <<0,0,0>>, <<0,0,128>>, <<128,0,0>>, <<0,100,0>>,
                               <<128,0,128>>, <<255,0,0>> >>,
               makeup   |-> << <<255,182,193>>, <<255,228,225>>, <<255,192,203>>,
                               <<219,112,147>>, <<205,92,92>> >>]
         [] t = MEDIUM_LIGHT ->
              [clothing |-> << <<0,0,0>>, <<0,0,128>>, <<128,0,0>>, <<0,100,0>>,
                               <<255,0,0>>, <<255,165,0>> >>,
               makeup   |-> << <<255,192,203>>, <<219,112,147>>, <<205,92,92>>,
                               <<233,150,122>> >>]
         [] t = MEDIUM ->
              [clothing |-> << <<0,0,0>>, <<0,0,128>>, <<255,0,0>>, <<255,165,0>>,
                               <<255,215,0>>, <<255,255,255>> >>,
               makeup   |-> << <<219,112,147>>, <<205,92,92>>, <<233,150,122>>,
                               <<250,128,114>> >>]
         [] t = MEDIUM_DARK ->
              [clothing |-> << <<0,0,0>>, <<255,0,0>>, <<255,165,0>>, <<255,215,0>>,
                               <<255,255,255>>, <<0,255,255>> >>,
               makeup   |-> << <<205,92,92>>, <<233,150,122>>, <<250,128,114>>,
                               <<255,99,71>> >>]
         [] t = DARK ->
              [clothing |-> << <<255,0,0>>, <<255,165,0>>, <<255,215,0>>,
                               <<255,255,255>>, <<0,255,255>>, <<255,192,203>> >>,
               makeup   |-> << <<233,150,122>>, <<250,128,114>>, <<255,99,71>>,
                               <<255,69,0>> >>]
         [] t = VERY_DARK ->
              [clothing |-> << <<255,0,0>>, <<255,165,0>>, <<255,215,0>>,
                               <<255,255,255>>, <<0,255,255>>, <<255,192,203>>,
                               <<255,255,0>> >>,
               makeup   |-> << <<250,128,114>>, <<255,99,71>>, <<255,69,0>>,
                               <<255,140,0>> >>]]

\* The dict color_names of get_color_name, in its insertion (iteration) order.
color_names ==
    << [rgb |-> <<0,0,0>>,       name |-> "Black"],
       [rgb |-> <<255,255,255>>, name |-> "White"],
       [rgb |-> <<255,0,0>>,     name |-> "Red"],
       [rgb |-> <<0,255,0>>,     name |-> "Green"],
       [rgb |-> <<0,0,255>>,     name |-> "Blue"],
       [rgb |-> <<255,255,0>>,   name |-> "Yellow"],
       [rgb |-> <<255,0,255>>,   name |-> "Magenta"],
       [rgb |-> <<0,255,255>>,   name |-> "Cyan"],
       [rgb |-> <<128,0,0>>,     name |-> "Maroon"],
       [rgb |-> <<0,128,0>>,     name |-> "Dark Green"],
       [rgb |-> <<0,0,128>>,     name |-> "Navy"],
       [rgb |-> <<128,128,0>>,   name |-> "Olive"],
       [rgb |-> <<128,0,128>>,   name |-> "Purple"],
       [rgb |-> <<0,128,128>>,   name |-> "Teal"],
       [rgb |-> <<255,165,0>>,   name |-> "Orange"],
       [rgb |-> <<255,215,0>>,   name |-> "Gold"],
       [rgb |-> <<255,192,203>>, name |-> "Pink"],
       [rgb |-> <<219,112,147>>, name |-> "Pale Violet Red"],
       [rgb |-> <<205,92,92>>,   name |-> "Indian Red"],
       [rgb |-> <<233,150,122>>, name |-> "Dark Salmon"],
       [rgb |-> <<250,128,114>>, name |-> "Salmon"],
       [rgb |-> <<255,99,71>>,   name |-> "Tomato"],
       [rgb |-> <<255,69,0>>,    name |-> "Orange Red"],
       [rgb |-> <<255,140,0>>,   name |-> "Dark Orange"],
       [rgb |-> <<255,182,193>>, name |-> "Light Pink"],
       [rgb |-> <<255,228,225>>, name |-> "Misty Rose"] >>

\* sum((np.array(rgb) - np.array(color_rgb))**2): the squared distance.  The
\* code compares np.sqrt of it; on integers up to 3*255^2 the square root
\* keeps both the order and the ties, so the squares are compared.
SquaredDistance(a, b) ==
    (a[1] - b[1]) * (a[1] - b[1]) + (a[2] - b[2]) * (a[2] - b[2])
        + (a[3] - b[3]) * (a[3] - b[3])

\* float('inf'): above every distance between two colours.
InfDistance == 3 * 255 * 255 + 1

\* The comparison of the loop of get_color_name, with <= : the last of
\* several nearest entries would win.
ClosestStepLastWins(distance, min_distance) == distance <= min_distance

\* if distance < min_distance
ClosestStep(distance, min_distance) == distance < min_distance

\* The loop of get_color_name from table entry i on, with the running
\* min_distance and closest_color.
RECURSIVE ClosestFrom(_, _, _, _)
ClosestFrom(rgb, i, min_distance, closest_color) ==
    IF i > Len(color_names) THEN closest_color
    ELSE LET distance == SquaredDistance(rgb, color_names[i].rgb)
         IN  IF ClosestStep(distance, min_distance)
             THEN ClosestFrom(rgb, i + 1, distance, color_names[i].name)
             ELSE ClosestFrom(rgb, i + 1, min_distance, closest_color)

\* ColorPalette.get_color_name
get_color_name(rgb) == ClosestFrom(rgb, 1, InfDistance, "Unknown")

HexDigits ==
    <<"0", "1", "2", "3", "4", "5", "6", "7", "8", "9", "a", "b", "c", "d", "e", "f">>

\* The format :02x of a channel 0..255, with a single digit below 16 (no
\* zero padding).
Hex2Unpadded(n) ==
    IF n < 16 THEN <<HexDigits[n + 1]>>
    ELSE <<HexDigits[(n \div 16) + 1], HexDigits[(n % 16) + 1]>>

\* The format :02x of a channel 0..255.
Hex2(n) == <<HexDigits[(n \div 16) + 1], HexDigits[(n % 16) + 1]>>

\* f"#{color[0]:02x}{color[1]:02x}{color[2]:02x}"
HexOf(color) == <<"#">> \o Hex2(color[1]) \o Hex2(color[2]) \o Hex2(color[3])

\* One entry of a recommendation list.
ColorEntry(color) ==
    [rgb |-> color, hex |-> HexOf(color), name |-> get_color_name(color)]

\* ColorPalette.get_recommendations: a tone that is no key gets MEDIUM's table.
get_recommendations(skin_tone) ==
    LET recommendations ==
            IF skin_tone \in DOMAIN RECOMMENDATIONS
            THEN RECOMMENDATIONS[skin_tone] ELSE RECOMMENDATIONS[MEDIUM]
    IN  [category \in DOMAIN recommendations |->
            [i \in DOMAIN recommendations[category] |->
                ColorEntry(recommendations[category][i])]]

(***************************************************************************)
(* Library functions the image service calls.  OpenCV's 8-bit conversions  *)
(* are integer algorithms and are computed as OpenCV computes them;        *)
(* skimage's rgb2lab is floating point and is computed in fixed point with *)
(* four decimal digits.                                                    *)
(***************************************************************************)
\* hsv_shift of OpenCV's RGB2HSV_b: its division tables hold 12 fraction bits.
hsv_shift == 12

\* OpenCV rounds (x << hsv_shift) / d to the nearest integer to fill its tables.
DivTable(x, d) == IF d = 0 THEN 0 ELSE (2 * x * (2 ^ hsv_shift) + d) \div (2 * d)

\* (x + (1 << (hsv_shift-1))) >> hsv_shift, an arithmetic shift (floor).
ShiftRound(x) == (x + 2 ^ (hsv_shift - 1)) \div (2 ^ hsv_shift)

\* cv2.cvtColor(image_rgb, cv2.COLOR_RGB2HSV) of one 8-bit pixel: hue in
\* 0..179, saturation and value in 0..255.
RGB2HSV(rgb) ==
    LET r == rgb[1]
        g == rgb[2]
        b == rgb[3]
        v == Max(r, Max(g, b))
        vmin == Min(r, Min(g, b))
        diff == v - vmin
        s == ShiftRound(diff * DivTable(255, v))
        h0 == IF v = r THEN g - b
              ELSE IF v = g THEN b - r + 2 * diff
              ELSE r - g + 4 * diff
        h1 == ShiftRound(h0 * DivTable(30, diff))
        h == IF h1 < 0 THEN h1 + 180 ELSE h1
    IN  <<h, s, v>>

\* Rounding of a non-negative quotient to the nearest integer.
RoundDiv(num, den) == (2 * num + den) \div (2 * den)

\* cv2.cvtColor(adjusted_hsv, cv2.COLOR_HSV2RGB) of one 8-bit pixel.  The hue
\* byte may exceed 179: OpenCV reduces it modulo the full turn.
HSV2RGB(hsv) ==
    LET h == hsv[1] % 180
        s == hsv[2]
        v == hsv[3]
        sector == h \div 30
        f == h % 30
        p == RoundDiv(v * (255 - s), 255)
        q == RoundDiv(v * (255 * 30 - s * f), 255 * 30)
        t == RoundDiv(v * (255 * 30 - s * (30 - f)), 255 * 30)
    IN  IF s = 0 THEN <<v, v, v>>
        ELSE CASE sector = 0 -> <<v, t, p>>
               [] sector = 1 -> <<q, v, p>>
               [] sector = 2 -> <<p, v, t>>
               [] sector = 3 -> <<p, q, v>>
               [] sector = 4 -> <<t, p, v>>
               [] OTHER      -> <<v, p, q>>

\* A lower bound of the skin range without floors on saturation and value.
lower_skin_no_floor == <<0, 0, 0>>

\* lower_skin = [0, 20, 70] and upper_skin = [20, 255, 255]
lower_skin == <<0, 20, 70>>
upper_skin == <<20, 255, 255>>

\* cv2.inRange on one pixel, with every bound inclusive.
InRange(hsv, lower, upper) ==
    \A c \in 1..3 : lower[c] <= hsv[c] /\ hsv[c] <= upper[c]

\* Fixed point: the value 1.0.
FxOne == 100 * 100

FxMul(a, b) == (a * b) \div FxOne

RECURSIVE FxPow(_, _)
FxPow(a, n) == IF n = 0 THEN FxOne ELSE FxMul(FxPow(a, n - 1), a)

\* The largest r in lo..hi with r^n <= x, by bisection (r^n grows with r).
RECURSIVE FxRootIn(_, _, _, _)
FxRootIn(x, n, lo, hi) ==
    IF lo >= hi THEN lo
    ELSE LET mid == (lo + hi + 1) \div 2
         IN  IF FxPow(mid, n) <= x THEN FxRootIn(x, n, mid, hi)
                                   ELSE FxRootIn(x, n, lo, mid - 1)

FxRoot(x, n) == FxRootIn(x, n, 0, FxOne)

\* rgb2xyz's inverse sRGB companding of a channel c/255: c/255/12.92 up to
\* 0.04045, else ((c/255 + 0.055)/1.055)^2.4, the power as x^2 * (x^(1/5))^2.
Linear(c) ==
    IF c * 100000 <= 4045 * 255
    THEN (c * FxOne * 100) \div (255 * 1292)
    ELSE LET x == ((c * 1000 + 14025) * 2000) \div 53805
             r == FxRoot(x, 5)
         IN  FxMul(FxMul(x, x), FxMul(r, r))

\* The lightness L* of color.rgb2lab([[rgb / 255.0]]), in units of 1/LScale:
\* Y from the linear channels (D65, Yn = 1), then 116 f(Y) - 16 with f the
\* cube root above 0.008856 and 7.787 Y + 16/116 below.
LabLightness(rgb) ==
    LET y == (2127 * Linear(rgb[1]) + 7152 * Linear(rgb[2]) + 721 * Linear(rgb[3]))
                 \div FxOne
    IN  IF y * 1000 > 8856 * (FxOne \div 1000)
        THEN (116 * LScale * FxRoot(y, 3)) \div FxOne - 16 * LScale
        ELSE (9033 * LScale * y) \div (10 * FxOne)

(***************************************************************************)
(* app/services/image_service.py: the classification of detect_skin_tone.  *)
(***************************************************************************)
\* The thresholds compared with >= : a lightness on a boundary would fall in
\* the lighter category.
ClassifyInclusive(lightness) ==
    IF lightness >= 85 * LScale THEN VERY_LIGHT
    ELSE IF lightness >= 75 * LScale THEN LIGHT
    ELSE IF lightness >= 65 * LScale THEN MEDIUM_LIGHT
    ELSE IF lightness >= 55 * LScale THEN MEDIUM
    ELSE IF lightness >= 45 * LScale THEN MEDIUM_DARK
    ELSE IF lightness >= 35 * LScale THEN DARK
    ELSE VERY_DARK

\* The if/elif chain on lightness, which is in units of 1/LScale.
Classify(lightness) ==
    IF lightness > 85 * LScale THEN VERY_LIGHT
    ELSE IF lightness > 75 * LScale THEN LIGHT
    ELSE IF lightness > 65 * LScale THEN MEDIUM_LIGHT
    ELSE IF lightness > 55 * LScale THEN MEDIUM
    ELSE IF lightness > 45 * LScale THEN MEDIUM_DARK
    ELSE IF lightness > 35 * LScale THEN DARK
    ELSE VERY_DARK

(***************************************************************************)
(* Strings, file names and paths.                                          *)
(***************************************************************************)
\* str.lower() of one character, for the letters file names are made of here.
LowerChar(c) ==
    CASE c = "J" -> "j"
      [] c = "P" -> "p"
      [] c = "G" -> "g"
      [] c = "E" -> "e"
      [] c = "N" -> "n"
      [] OTHER -> c

\* str.lower()
Lower(s) == [i \in DOMAIN s |-> LowerChar(s[i])]

\* The index of the last '.' of s, 0 when it has none.
RECURSIVE LastDot(_, _)
LastDot(s, i) == IF i = 0 THEN 0 ELSE IF s[i] = "." THEN i ELSE LastDot(s, i - 1)

\* s.split('.')[0]: what precedes the first '.'.
SplitDotFirst(s) ==
    LET dots == {i \in DOMAIN s : s[i] = "."}
    IN  IF dots = {} THEN s
        ELSE SubSeq(s, 1, (CHOOSE i \in dots : \A j \in dots : i <= j) - 1)

\* s.split('.')[-1]: what follows the last '.', all of s when it has none.
SplitDotLast(s) == SubSeq(s, LastDot(s, Len(s)) + 1, Len(s))

\* settings.allowed_extensions, the default of AppConfig.
allowed_extensions == << <<"j","p","g">>, <<"j","p","e","g">>, <<"p","n","g">> >>

\* settings.upload_folder, the default of AppConfig.
upload_folder == <<"u","p","l","o","a","d","s">>

\* ext not in settings.allowed_extensions
ExtAllowed(ext) == \E i \in DOMAIN allowed_extensions : allowed_extensions[i] = ext

\* The values of uuid.uuid4(), and str() of one: a string without '.'.
Uuids == 1..MaxUuid
UuidStr(u) == <<HexDigits[(u % 16) + 1]>>

\* os.path.join(settings.upload_folder, name)
JoinUpload(name) == upload_folder \o <<"/">> \o name

\* os.path.basename(file_path)
Basename(path) ==
    LET slashes == {i \in DOMAIN path : path[i] = "/"}
        last == IF slashes = {} THEN 0
                ELSE CHOOSE i \in slashes : \A j \in slashes : j <= i
    IN  SubSeq(path, last + 1, Len(path))

\* f"{uuid.uuid4()}.{ext}" of save_upload
UploadName(u, ext) == UuidStr(u) \o <<".">> \o ext

adjusted_prefix == <<"a","d","j","u","s","t","e","d","_">>

\* f"adjusted_{uuid.uuid4()}.{ext}" of adjust_skin_tone
AdjustedName(u, ext) == adjusted_prefix \o UuidStr(u) \o <<".">> \o ext

(***************************************************************************)
(* app/core/error_handling.py                                              *)
(***************************************************************************)
VALIDATION_ERROR == "VALIDATION_ERROR"
PROCESSING_ERROR == "PROCESSING_ERROR"
FILE_ERROR == "FILE_ERROR"
IMAGE_PROCESSING_ERROR == "IMAGE_PROCESSING_ERROR"

ErrorCode == {VALIDATION_ERROR, PROCESSING_ERROR, FILE_ERROR, IMAGE_PROCESSING_ERROR}

\* details or {}
NoDetails == <<>>

\* ApplicationError(message, error_code, details)
ApplicationError(message, error_code, details) ==
    [message |-> message, error_code |-> error_code, details |-> details]

\* {"original_error": str(e)}
OriginalError(e) == [original_error |-> e]

(***************************************************************************)
(* Files and images.  A pixel is [rgb, a]: a PNG may carry an alpha        *)
(* channel, which cv2.imread drops and ColorThief reads.  An image is      *)
(* [height, width, pixels], the pixels row by row.  A file holds an image, *)
(* bytes that decode to none ("garbage"), or nothing yet ("partial": it    *)
(* was created and its data did not arrive).                               *)
(***************************************************************************)
NoImage == [height |-> 0, width |-> 0, pixels |-> <<>>]

ImageFile(image) == [kind |-> "image", image |-> image]
Garbage == [kind |-> "garbage", image |-> NoImage]
Partial == [kind |-> "partial", image |-> NoImage]

\* The pixels images are made of: two skin colours, pure red (hue 0), a dark
\* brown of skin hue and value below 70, blue and white (outside the skin
\* range), and a transparent skin pixel.
PixelValues ==
    { [rgb |-> <<200, 150, 120>>, a |-> 255],
      [rgb |-> <<100, 60, 40>>,   a |-> 255],
      [rgb |-> <<60, 40, 30>>,    a |-> 255],
      [rgb |-> <<255, 0, 0>>,     a |-> 255],
      [rgb |-> <<0, 0, 255>>,     a |-> 255],
      [rgb |-> <<255, 255, 255>>, a |-> 255],
      [rgb |-> <<200, 150, 120>>, a |-> 0] }

\* Every image of at most MaxPixels pixels, of every height and width.
Images ==
    UNION { { [height |-> h, width |-> w, pixels |-> px] :
                px \in [1..(h * w) -> PixelValues] } :
            <<h, w>> \in { hw \in (1..MaxPixels) \X (1..MaxPixels) :
                             hw[1] * hw[2] <= MaxPixels } }

Contents == {ImageFile(im) : im \in Images} \cup {Garbage}

\* cv2.imread(image_path): the decoded colour image without its alpha
\* channel, or None (NoImage) for a missing or undecodable file.
Imread(files, image_path) ==
    IF image_path \in DOMAIN files /\ files[image_path].kind = "image"
    THEN LET im == files[image_path].image
         IN  [height |-> im.height, width |-> im.width,
              pixels |-> [i \in DOMAIN im.pixels |-> im.pixels[i].rgb]]
    ELSE NoImage

\* ColorThief keeps the pixels that are mostly opaque and not white.
ValidPixels(image) ==
    { i \in DOMAIN image.pixels :
        /\ image.pixels[i].a >= 125
        /\ ~ (image.pixels[i].rgb[1] > 250 /\ image.pixels[i].rgb[2] > 250
                /\ image.pixels[i].rgb[3] > 250) }

\* ColorThief quantises to 5 bits a channel and reports the centres of
\* its colour boxes.
BoxCentre(rgb) == [c \in 1..3 |-> 8 * (rgb[c] \div 8) + 4]

\* The colours color_thief.get_color(quality=1) may return for an image with
\* valid pixels.  The median cut is the library's; its result is taken to
\* be the box centre of one of the valid pixels, whichever.
DominantColors(image) == { BoxCentre(image.pixels[i].rgb) : i \in ValidPixels(image) }

(***************************************************************************)
(* app/services/image_service.py: what detect_skin_tone and                *)
(* adjust_skin_tone compute from the decoded image.                        *)
(***************************************************************************)
\* cv2.cvtColor(image_rgb, cv2.COLOR_RGB2HSV) of the image's pixels.
ImageHSV(image) == [i \in DOMAIN image.pixels |-> RGB2HSV(image.pixels[i])]

\* cv2.inRange(image_hsv, lower_skin, upper_skin) > 0, pixel by pixel.
SkinMask(image_hsv) ==
    [i \in DOMAIN image_hsv |-> InRange(image_hsv[i], lower_skin, upper_skin)]

\* np.where(skin_mask > 0): the masked pixels, in row-major order.
SkinPixels(skin_mask) == {i \in DOMAIN skin_mask : skin_mask[i]}

\* The sum of channel c of the pixels of px (a sequence of triples) whose
\* index is in idx.
RECURSIVE ChannelSum(_, _, _)
ChannelSum(px, idx, c) ==
    IF idx = {} THEN 0
    ELSE LET i == CHOOSE j \in idx : TRUE
         IN  px[i][c] + ChannelSum(px, idx \ {i}, c)

\* np.mean(skin_pixels, axis=0).astype(int): the channel means, truncated.
MeanColor(px, idx) ==
    [c \in 1..3 |-> ChannelSum(px, idx, c) \div Cardinality(idx)]

\* {"rgb": ..., "hex": ...} of the metadata
ColorMeta(rgb) == [rgb |-> rgb, hex |-> HexOf(rgb)]

\* avg_skin_color: the mean of the masked pixels, or the dominant colour
\* when the mask selects none.
AvgSkinColor(image, skin, dominant_color) ==
    IF Cardinality(skin) > 0 THEN MeanColor(image.pixels, skin) ELSE dominant_color

NoMetadata ==
    [avg_skin_color |-> ColorMeta(<<0, 0, 0>>), dominant_color |-> ColorMeta(<<0, 0, 0>>),
     palette |-> <<>>, lightness |-> 0]

\* detect_skin_tone from the mask to the returned tuple.  palette is
\* get_palette's list, taken to be the box centres of the given colours.
DetectCompute(image, dominant_color, palette) ==
    LET image_hsv == ImageHSV(image)
        skin == SkinPixels(SkinMask(image_hsv))
        avg_skin_color == AvgSkinColor(image, skin, dominant_color)
        lightness == LabLightness(avg_skin_color)
    IN  [skin_tone |-> Classify(lightness),
         metadata |->
            [avg_skin_color |-> ColorMeta(avg_skin_color),
             dominant_color |-> ColorMeta(dominant_color),
             palette |-> [i \in DOMAIN palette |-> ColorMeta(palette[i])],
             lightness |-> lightness]]

\* The target table with the saturation rising with the lightness, as the
\* value does.
target_hsv_values_rising ==
    [t \in SkinTone |->
       CASE t = VERY_LIGHT   -> <<0, 90, 240>>
         [] t = LIGHT        -> <<0, 80, 230>>
         [] t = MEDIUM_LIGHT -> <<0, 70, 220>>
         [] t = MEDIUM       -> <<0, 60, 200>>
         [] t = MEDIUM_DARK  -> <<0, 50, 180>>
         [] t = DARK         -> <<0, 40, 160>>
         [] t = VERY_DARK    -> <<0, 30, 140>>]

\* target_hsv_values of adjust_skin_tone
target_hsv_values ==
    [t \in SkinTone |->
       CASE t = VERY_LIGHT   -> <<0, 30, 240>>
         [] t = LIGHT        -> <<0, 40, 230>>
         [] t = MEDIUM_LIGHT -> <<0, 50, 220>>
         [] t = MEDIUM       -> <<0, 60, 200>>
         [] t = MEDIUM_DARK  -> <<0, 70, 180>>
         [] t = DARK         -> <<0, 80, 160>>
         [] t = VERY_DARK    -> <<0, 90, 140>>]

\* The scaled channel stored without clipping: the byte keeps the low 8 bits.
AdjustChannelNoClip(v, target, sum, n) ==
    IF n > 0 /\ sum > 0 THEN ((v * target * n) \div sum) % 256 ELSE v

\* One channel of one masked pixel: skin_hsv * factor clipped to [0, 255]
\* and stored in the uint8 image, which drops the fraction.  The factor is
\* target / mean = target * n / sum when the mean is above 0, else 1; the
\* product is computed exactly (numpy's float64 product can fall just below
\* an integer the exact product reaches).
AdjustChannel(v, target, sum, n) ==
    IF n > 0 /\ sum > 0 THEN Max(0, Min(255, (v * target * n) \div sum)) ELSE v

\* The exception adjust_skin_tone would raise between imread and the save,
\* were an empty mask's mean a division by zero.
AdjustRaisesOnEmptyMask(image, target_tone) ==
    IF target_tone \notin DOMAIN target_hsv_values THEN "KeyError"
    ELSE IF SkinPixels(SkinMask(ImageHSV(image))) = {} THEN "ZeroDivisionError"
    ELSE ""

\* The exception adjust_skin_tone raises between imread and the save, ""
\* when none: target_hsv_values[target_tone] of a tone that is no key.  The
\* np.mean of an empty selection is nan, with a warning and no exception.
AdjustRaises(image, target_tone) ==
    IF target_tone \notin DOMAIN target_hsv_values THEN "KeyError" ELSE ""

\* adjust_skin_tone scaling every pixel of the image, masked or not.
AdjustComputeWholeImage(image, target_tone) ==
    LET image_hsv == ImageHSV(image)
        skin_mask == SkinMask(image_hsv)
        skin == SkinPixels(skin_mask)
        target_hsv == target_hsv_values[target_tone]
        n == Cardinality(skin)
        sum == [c \in 1..3 |-> ChannelSum(image_hsv, skin, c)]
        adjusted_hsv ==
            [i \in DOMAIN image_hsv |->
                [c \in 1..3 |->
                    AdjustChannel(image_hsv[i][c], target_hsv[c], sum[c], n)]]
    IN  [image_hsv |-> image_hsv, skin_mask |-> skin_mask,
         adjusted_hsv |-> adjusted_hsv,
         adjusted_rgb |->
            [height |-> image.height, width |-> image.width,
             pixels |-> [i \in DOMAIN adjusted_hsv |-> HSV2RGB(adjusted_hsv[i])]]]

NoWork == [image_hsv |-> <<>>, skin_mask |-> <<>>, adjusted_hsv |-> <<>>,
           adjusted_rgb |-> NoImage]

\* adjust_skin_tone from the mask to adjusted_rgb.
AdjustCompute(image, target_tone) ==
    LET image_hsv == ImageHSV(image)
        skin_mask == SkinMask(image_hsv)
        skin == SkinPixels(skin_mask)
        target_hsv == target_hsv_values[target_tone]
        n == Cardinality(skin)
        sum == [c \in 1..3 |-> ChannelSum(image_hsv, skin, c)]
        adjusted_hsv ==
            [i \in DOMAIN image_hsv |->
                IF skin_mask[i]
                THEN [c \in 1..3 |->
                        AdjustChannel(image_hsv[i][c], target_hsv[c], sum[c], n)]
                ELSE image_hsv[i]]
    IN  [image_hsv |-> image_hsv, skin_mask |-> skin_mask,
         adjusted_hsv |-> adjusted_hsv,
         adjusted_rgb |->
            [height |-> image.height, width |-> image.width,
             pixels |-> [i \in DOMAIN adjusted_hsv |-> HSV2RGB(adjusted_hsv[i])]]]

\* Image.fromarray(adjusted_rgb) as the file adjusted_pil.save writes: an
\* opaque RGB image.  (The file is taken to decode to the pixels saved,
\* which holds for PNG; JPEG would perturb them.)
SavedImage(adjusted_rgb) ==
    ImageFile([height |-> adjusted_rgb.height, width |-> adjusted_rgb.width,
               pixels |-> [i \in DOMAIN adjusted_rgb.pixels |->
                              [rgb |-> adjusted_rgb.pixels[i], a |-> 255]]])

(***************************************************************************)
(* The service calls.  Each thread of Procs runs one call at a time; a     *)
(* call is a sequence of steps, one for each access to the file system, so *)
(* that calls of different threads interleave between their reads and      *)
(* writes.  The step that starts a call takes its arguments and runs the   *)
(* handler up to its first access.                                         *)
(***************************************************************************)
Procs == {1, 2}

NoError == ApplicationError("", "", NoDetails)

NoRet == [status |-> "none", path |-> <<>>, skin_tone |-> "",
          metadata |-> NoMetadata, error |-> NoError]

\* return file_path / return adjusted_path
ReturnPath(path) == [NoRet EXCEPT !.status = "ok", !.path = path]

\* return skin_tone, metadata
ReturnTone(r) ==
    [NoRet EXCEPT !.status = "ok", !.skin_tone = r.skin_tone, !.metadata = r.metadata]

\* raise ApplicationError(...)
Raise(error) == [NoRet EXCEPT !.status = "error", !.error = error]

IdleProc ==
    [id |-> 0, fn |-> "none", pc |-> "idle",
     file_data |-> Garbage, filename |-> <<>>,
     image_path |-> <<>>, target_tone |-> "",
     file_path |-> <<>>, image |-> NoImage, work |-> NoWork, ret |-> NoRet]

\* A thread that runs no call can start one.
Free(p) == procs[p].pc \in {"idle", "done"}

NewCall(fn) == [IdleProc EXCEPT !.id = ncalls + 1, !.fn = fn]

\* The file names an upload may carry.
FileNames ==
    { <<"a", ".", "j", "p", "g">>,
      <<"a", ".", "P", "N", "G">>,
      <<"a", ".", "b", ".", "j", "p", "e", "g">>,
      <<"p", "n", "g">>,
      <<"a", ".", "e", "x", "e">>,
      <<"j", "p", "g", ".", "e", "x", "e">>,
      <<"a", ".">>,
      <<"a">> }

\* The extension taken before the first '.' of the file name.
UploadExtFirstPart(filename) == Lower(SplitDotFirst(filename))

\* ext = filename.split('.')[-1].lower()
UploadExt(filename) == Lower(SplitDotLast(filename))

\* ApplicationError(f"File type .{ext} not allowed. ...", VALIDATION_ERROR)
ValidationError(ext) ==
    ApplicationError("File type not allowed", VALIDATION_ERROR, NoDetails)

\* The except Exception clause of save_upload.
SaveFailed(e) ==
    ApplicationError("Failed to save uploaded file", FILE_ERROR, OriginalError(e))

\* save_upload(file_data, filename) up to the open: the extension check, and
\* the new name.
SaveUpload(p, file_data, filename) ==
    /\ Free(p)
    /\ LET ext == UploadExt(filename)
           c == [NewCall("save_upload") EXCEPT !.file_data = file_data,
                                               !.filename = filename]
       IN  IF ~ ExtAllowed(ext)
           THEN /\ procs' = [procs EXCEPT ![p] =
                       [c EXCEPT !.pc = "done", !.ret = Raise(ValidationError(ext))]]
                /\ UNCHANGED generated
           ELSE \E u \in Uuids :
                  LET unique_filename == UploadName(u, ext)
                  IN  /\ procs' = [procs EXCEPT ![p] =
                             [c EXCEPT !.pc = "open",
                                       !.file_path = JoinUpload(unique_filename)]]
                      /\ generated' = generated \cup
                             {[call |-> c.id, name |-> unique_filename]}
    /\ ncalls' = ncalls + 1
    /\ UNCHANGED <<call, fs, writes, reads>>

\* The path save_upload opens, were it named after the upload's own file name.
SavePathOriginalName(c) == JoinUpload(c.filename)

\* The path save_upload opens.
SavePath(c) == c.file_path

\* open(file_path, "wb"): the file is created or emptied, or the open fails.
SaveOpen(p) ==
    /\ procs[p].fn = "save_upload" /\ procs[p].pc = "open"
    /\ LET c == procs[p]
           path == SavePath(c)
       IN  \/ /\ fs' = [x \in DOMAIN fs \cup {path} |->
                           IF x = path THEN Partial ELSE fs[x]]
              /\ writes' = writes \cup {[call |-> c.id, path |-> path, data |-> Partial]}
              /\ procs' = [procs EXCEPT ![p].pc = "write"]
           \/ /\ procs' = [procs EXCEPT ![p].pc = "done",
                                        ![p].ret = Raise(SaveFailed("OSError"))]
              /\ UNCHANGED <<fs, writes>>
    /\ UNCHANGED <<call, ncalls, generated, reads>>

\* f.write(file_data), the close and the return; or the write fails and the
\* file keeps what it held.
SaveWrite(p) ==
    /\ procs[p].fn = "save_upload" /\ procs[p].pc = "write"
    /\ LET c == procs[p]
           path == SavePath(c)
       IN  \/ /\ fs' = [x \in DOMAIN fs \cup {path} |->
                           IF x = path THEN c.file_data ELSE fs[x]]
              /\ writes' = writes \cup
                     {[call |-> c.id, path |-> path, data |-> c.file_data]}
              /\ procs' = [procs EXCEPT ![p].pc = "done", ![p].ret = ReturnPath(path)]
           \/ /\ procs' = [procs EXCEPT ![p].pc = "done",
                                        ![p].ret = Raise(SaveFailed("OSError"))]
              /\ UNCHANGED <<fs, writes>>
    /\ UNCHANGED <<call, ncalls, generated, reads>>

\* ApplicationError("Failed to load image", IMAGE_PROCESSING_ERROR)
LoadFailed == ApplicationError("Failed to load image", IMAGE_PROCESSING_ERROR, NoDetails)

\* The except Exception clause of detect_skin_tone, with another code.
DetectFailedOtherCode(e) ==
    ApplicationError("Failed to detect skin tone", PROCESSING_ERROR, OriginalError(e))

\* The except Exception clause of detect_skin_tone.
DetectFailed(e) ==
    ApplicationError("Failed to detect skin tone", IMAGE_PROCESSING_ERROR,
                     OriginalError(e))

\* The except Exception clause of adjust_skin_tone.
AdjustFailed(e) ==
    ApplicationError("Failed to adjust skin tone", IMAGE_PROCESSING_ERROR,
                     OriginalError(e))

\* detect_skin_tone(image_path) up to ColorThief: cv2.imread and the check
\* of its result.
DetectSkinTone(p, image_path) ==
    /\ Free(p)
    /\ LET image == Imread(fs, image_path)
           c == [NewCall("detect_skin_tone") EXCEPT !.image_path = image_path]
       IN  procs' = [procs EXCEPT ![p] =
               IF image = NoImage
               THEN [c EXCEPT !.pc = "done", !.ret = Raise(LoadFailed)]
               ELSE [c EXCEPT !.pc = "colorthief", !.image = image]]
    /\ ncalls' = ncalls + 1
    /\ reads' = reads \cup {[call |-> ncalls + 1, path |-> image_path]}
    /\ UNCHANGED <<call, fs, generated, writes>>

\* ColorThief(image_path) opens the file once more; get_color and
\* get_palette raise when the file is no image or has no valid pixel.
\* Then the rest of detect_skin_tone, which touches no file.
DetectColorThief(p) ==
    /\ procs[p].fn = "detect_skin_tone" /\ procs[p].pc = "colorthief"
    /\ LET c == procs[p]
           known == c.image_path \in DOMAIN fs /\ fs[c.image_path].kind = "image"
           file == IF known THEN fs[c.image_path].image ELSE NoImage
       IN  \/ /\ ~ known
              /\ procs' = [procs EXCEPT ![p].pc = "done",
                              ![p].ret = Raise(DetectFailed("cannot identify image file"))]
           \/ /\ known /\ ValidPixels(file) = {}
              /\ procs' = [procs EXCEPT ![p].pc = "done",
                              ![p].ret = Raise(DetectFailed("Empty pixels when quantize."))]
           \/ /\ known
              /\ \E dominant_color \in DominantColors(file) :
                    LET valid == ValidPixels(file)
                        palette == [i \in 1..Min(5, Cardinality(valid)) |-> dominant_color]
                    IN  procs' = [procs EXCEPT ![p].pc = "done",
                                    ![p].ret = ReturnTone(
                                        DetectCompute(c.image, dominant_color, palette))]
    /\ reads' = reads \cup {[call |-> procs[p].id, path |-> procs[p].image_path]}
    /\ UNCHANGED <<call, fs, ncalls, generated, writes>>

\* ext = image_path.split('.')[-1].lower() and the adjusted_path
AdjustedPath(image_path, u) ==
    JoinUpload(AdjustedName(u, Lower(SplitDotLast(image_path))))

\* adjust_skin_tone(image_path, target_tone) up to the save: cv2.imread, the
\* check of its result, the adjusted image and the output path.
AdjustSkinTone(p, image_path, target_tone) ==
    /\ Free(p)
    /\ LET image == Imread(fs, image_path)
           c == [NewCall("adjust_skin_tone") EXCEPT !.image_path = image_path,
                                                    !.target_tone = target_tone]
       IN  IF image = NoImage
           THEN /\ procs' = [procs EXCEPT ![p] =
                       [c EXCEPT !.pc = "done", !.ret = Raise(LoadFailed)]]
                /\ UNCHANGED generated
           ELSE IF AdjustRaises(image, target_tone) # ""
           THEN /\ procs' = [procs EXCEPT ![p] =
                       [c EXCEPT !.pc = "done", !.image = image,
                           !.ret = Raise(AdjustFailed(AdjustRaises(image, target_tone)))]]
                /\ UNCHANGED generated
           ELSE \E u \in Uuids :
                  LET adjusted_path == AdjustedPath(image_path, u)
                  IN  /\ procs' = [procs EXCEPT ![p] =
                             [c EXCEPT !.pc = "save", !.image = image,
                                       !.work = AdjustCompute(image, target_tone),
                                       !.file_path = adjusted_path]]
                      /\ generated' = generated \cup
                             {[call |-> c.id, name |-> Basename(adjusted_path)]}
    /\ ncalls' = ncalls + 1
    /\ reads' = reads \cup {[call |-> ncalls + 1, path |-> image_path]}
    /\ UNCHANGED <<call, fs, writes>>

\* adjusted_pil.save(adjusted_path) and the return; or the save fails, before
\* it created the file or leaving it incomplete.
AdjustSave(p) ==
    /\ procs[p].fn = "adjust_skin_tone" /\ procs[p].pc = "save"
    /\ LET c == procs[p]
           path == c.file_path
           saved == SavedImage(c.work.adjusted_rgb)
       IN  \/ /\ fs' = [x \in DOMAIN fs \cup {path} |->
                           IF x = path THEN saved ELSE fs[x]]
              /\ writes' = writes \cup {[call |-> c.id, path |-> path, data |-> saved]}
              /\ procs' = [procs EXCEPT ![p].pc = "done", ![p].ret = ReturnPath(path)]
           \/ /\ procs' = [procs EXCEPT ![p].pc = "done",
                                        ![p].ret = Raise(AdjustFailed("OSError"))]
              /\ UNCHANGED <<fs, writes>>
           \/ /\ fs' = [x \in DOMAIN fs \cup {path} |->
                           IF x = path THEN Partial ELSE fs[x]]
              /\ writes' = writes \cup {[call |-> c.id, path |-> path, data |-> Partial]}
              /\ procs' = [procs EXCEPT ![p].pc = "done",
                                        ![p].ret = Raise(AdjustFailed("OSError"))]
    /\ UNCHANGED <<call, ncalls, generated, reads>>

(***************************************************************************)
(* Spec: threads calling the service on one upload directory.              *)
(***************************************************************************)
NoCall == [fn |-> "none", arg |-> <<>>, ret |-> <<>>, done |-> TRUE]

\* The path of no file.
MissingPath == JoinUpload(<<"m", ".", "p", "n", "g">>)

\* What the uploads of Spec hold: a one-pixel skin image, and bytes that
\* are no image.
Uploads ==
    { ImageFile([height |-> 1, width |-> 1,
                 pixels |-> <<[rgb |-> <<200, 150, 120>>, a |-> 255]>>]),
      Garbage }

\* The file names of the uploads of Spec.
SpecFileNames == { <<"a", ".", "j", "p", "g">>, <<"a", ".", "e", "x", "e">> }

\* The target tones a caller passes: the seven tones, and a value that is
\* no key of the tables.
TargetTones == SkinTone \cup {"Unknown"}

\* The tones the calls of Spec ask for.
SpecTones == {VERY_DARK}

\* After construction: os.makedirs(settings.upload_folder) has made the
\* upload directory, which holds nothing, and no call runs.
Init ==
    /\ call = NoCall
    /\ fs = <<>>
    /\ procs = [p \in Procs |-> IdleProc]
    /\ ncalls = 0
    /\ generated = {}
    /\ writes = {}
    /\ reads = {}

\* The call with this id has returned or raised.
Finished(id) == \A p \in Procs : procs[p].id = id => procs[p].pc = "done"

\* The paths a caller passes: of a file whose writer is through (the calling
\* layer learns a path when the call that made it returns), or of no file.
CallerPaths ==
    {x \in DOMAIN fs : \A w \in writes : w.path = x => Finished(w.call)}
        \cup {MissingPath}

Steps(p) ==
    \/ SaveOpen(p)
    \/ SaveWrite(p)
    \/ DetectColorThief(p)
    \/ AdjustSave(p)

Next ==
    \E p \in Procs :
        \/ /\ ncalls < MaxCalls
           /\ \/ \E file_data \in Uploads, filename \in SpecFileNames :
                    SaveUpload(p, file_data, filename)
              \/ \E image_path \in CallerPaths : DetectSkinTone(p, image_path)
              \/ \E image_path \in CallerPaths, target_tone \in SpecTones :
                    AdjustSkinTone(p, image_path, target_tone)
        \/ Steps(p)

Spec == Init /\ [][Next]_vars

(***************************************************************************)
(* SpecCall: one call of the service, of any operation and with any        *)
(* arguments, on a directory that holds one file of any content.           *)
(***************************************************************************)
\* The file the directory holds, as an earlier upload left it.
InputPath == JoinUpload(UploadName(0, <<"p", "n", "g">>))

InitCall ==
    /\ call = NoCall
    /\ \E content \in Contents : fs = [x \in {InputPath} |-> content]
    /\ procs = [p \in Procs |-> IdleProc]
    /\ ncalls = 0
    /\ generated = {}
    /\ writes = {}
    /\ reads = {}

NextCall ==
    \/ /\ ncalls < 1
       /\ \/ \E file_data \in Uploads, filename \in FileNames :
                SaveUpload(1, file_data, filename)
          \/ \E image_path \in CallerPaths : DetectSkinTone(1, image_path)
          \/ \E image_path \in CallerPaths, target_tone \in TargetTones :
                AdjustSkinTone(1, image_path, target_tone)
    \/ Steps(1)

SpecCall == InitCall /\ [][NextCall]_vars

(***************************************************************************)
(* SpecPalette: get_color_name and get_recommendations, each applied to    *)
(* one argument.                                                           *)
(***************************************************************************)
\* The colours get_color_name is applied to: a grid over the colour cube,
\* the named colours, the recommended colours, and colours with two
\* nearest named colours.
SampleChannel == {(255 * k) \div GridParts : k \in 0..GridParts}

SampleColors ==
    (SampleChannel \X SampleChannel \X SampleChannel)
        \cup {color_names[i].rgb : i \in DOMAIN color_names}
        \cup UNION {{RECOMMENDATIONS[t][cat][i] : i \in DOMAIN RECOMMENDATIONS[t][cat]} :
                      <<t, cat>> \in SkinTone \X {"clothing", "makeup"}}
        \cup {<<0, 0, 64>>, <<64, 0, 0>>, <<0, 64, 64>>, <<255, 255, 254>>}

Idle ==
    /\ fs = <<>>
    /\ procs = [p \in Procs |-> IdleProc]
    /\ ncalls = 0
    /\ generated = {}
    /\ writes = {}
    /\ reads = {}

InitPalette ==
    /\ \/ \E rgb \in SampleColors :
            call = [fn |-> "get_color_name", arg |-> rgb, ret |-> <<>>, done |-> FALSE]
       \/ \E skin_tone \in TargetTones :
            call = [fn |-> "get_recommendations", arg |-> skin_tone, ret |-> <<>>,
                    done |-> FALSE]
    /\ Idle

GetColorName ==
    /\ call.fn = "get_color_name" /\ ~ call.done
    /\ call' = [call EXCEPT !.ret = get_color_name(call.arg), !.done = TRUE]
    /\ UNCHANGED <<fs, procs, ncalls, generated, writes, reads>>

GetRecommendations ==
    /\ call.fn = "get_recommendations" /\ ~ call.done
    /\ call' = [call EXCEPT !.ret = get_recommendations(call.arg), !.done = TRUE]
    /\ UNCHANGED <<fs, procs, ncalls, generated, writes, reads>>

NextPalette == GetColorName \/ GetRecommendations

SpecPalette == InitPalette /\ [][NextPalette]_vars

(***************************************************************************)
(* SpecClassify: the thresholds of detect_skin_tone applied to one         *)
(* lightness of the range 0..100 of L*.                                    *)
(***************************************************************************)
InitClassify ==
    /\ \E lightness \in 0..(100 * LScale) :
            call = [fn |-> "classify", arg |-> lightness, ret |-> "", done |-> FALSE]
    /\ Idle

ClassifyLightness ==
    /\ call.fn = "classify" /\ ~ call.done
    /\ call' = [call EXCEPT !.ret = Classify(call.arg), !.done = TRUE]
    /\ UNCHANGED <<fs, procs, ncalls, generated, writes, reads>>

NextClassify == ClassifyLightness

SpecClassify == InitClassify /\ [][NextClassify]_vars

(***************************************************************************)
(* Properties.                                                             *)
(***************************************************************************)
\* The calls the threads hold, running or just finished.
CallsOf(fn) == {procs[p] : p \in {q \in Procs : procs[q].fn = fn}}

\* C1: detect_skin_tone classifies the lightness L* by strict descending
\* thresholds: above 85 VeryLight, else above 75 Light, else above 65
\* MediumLight, else above 55 Medium, else above 45 MediumDark, else above 35
\* Dark, else VeryDark.  Every L* gets exactly one category, and an L* on a
\* boundary gets the darker of the two adjacent categories.
C1_StrictThresholds ==
    (call.fn = "classify" /\ call.done) =>
        LET l == call.arg
            t == call.ret
        IN  /\ t \in SkinTone
            /\ (t = VERY_LIGHT)   <=> (l > 85 * LScale)
            /\ (t = LIGHT)        <=> (75 * LScale < l /\ l <= 85 * LScale)
            /\ (t = MEDIUM_LIGHT) <=> (65 * LScale < l /\ l <= 75 * LScale)
            /\ (t = MEDIUM)       <=> (55 * LScale < l /\ l <= 65 * LScale)
            /\ (t = MEDIUM_DARK)  <=> (45 * LScale < l /\ l <= 55 * LScale)
            /\ (t = DARK)         <=> (35 * LScale < l /\ l <= 45 * LScale)
            /\ (t = VERY_DARK)    <=> (l <= 35 * LScale)

\* An L* of exactly 85 has been classified, as Light.
C1_Witness ==
    call.fn = "classify" /\ call.done /\ call.arg = 85 * LScale /\ call.ret = LIGHT

\* The value of a lowercase hexadecimal digit, -1 for any other character.
HexValue(d) ==
    IF \E k \in DOMAIN HexDigits : HexDigits[k] = d
    THEN (CHOOSE k \in DOMAIN HexDigits : HexDigits[k] = d) - 1
    ELSE -1

\* hex is '#' and the two lowercase hexadecimal digits of each of r, g, b.
HexMatches(hex, rgb) ==
    /\ Len(hex) = 7
    /\ hex[1] = "#"
    /\ \A c \in 1..3 :
          /\ HexValue(hex[2 * c]) >= 0
          /\ HexValue(hex[2 * c + 1]) >= 0
          /\ 16 * HexValue(hex[2 * c]) + HexValue(hex[2 * c + 1]) = rgb[c]

\* C5: for each of the seven tones get_recommendations returns exactly the
\* keys "clothing" and "makeup", each a list of 4 to 7 entries in the order
\* of the table, every entry with the hex code '#rrggbb' (lowercase) of its
\* rgb and with the name get_color_name gives its rgb.
C5_Recommendations ==
    (call.fn = "get_recommendations" /\ call.done /\ call.arg \in SkinTone) =>
        /\ DOMAIN call.ret = {"clothing", "makeup"}
        /\ \A category \in DOMAIN call.ret :
              LET entries == call.ret[category]
                  table == RECOMMENDATIONS[call.arg][category]
              IN  /\ Len(entries) >= 4 /\ Len(entries) <= 7
                  /\ Len(entries) = Len(table)
                  /\ \A i \in DOMAIN entries :
                        /\ entries[i].rgb = table[i]
                        /\ HexMatches(entries[i].hex, entries[i].rgb)
                        /\ entries[i].name = get_color_name(entries[i].rgb)

\* The recommendations of Very Light, whose first clothing colour is black
\* ('#000000', every channel below 16), have been returned.
C5_Witness ==
    /\ call.fn = "get_recommendations" /\ call.done /\ call.arg = VERY_LIGHT
    /\ call.ret["clothing"][1].rgb = <<0, 0, 0>>
    /\ Len(call.ret["makeup"]) = 4

\* C6: get_color_name returns the name of the table entry at the least
\* Euclidean distance from the colour, the first such entry in the table's
\* order when several are as near; so a colour of the table gets its own
\* name, and the result is never "Unknown".
C6_NearestFirst ==
    (call.fn = "get_color_name" /\ call.done) =>
        /\ \E i \in DOMAIN color_names :
              /\ call.ret = color_names[i].name
              /\ \A j \in DOMAIN color_names :
                    /\ SquaredDistance(call.arg, color_names[j].rgb)
                          >= SquaredDistance(call.arg, color_names[i].rgb)
                    /\ j < i => SquaredDistance(call.arg, color_names[j].rgb)
                                  > SquaredDistance(call.arg, color_names[i].rgb)
        /\ \A k \in DOMAIN color_names :
              call.arg = color_names[k].rgb => call.ret = color_names[k].name
        /\ call.ret # "Unknown"
        /\ (call.arg = <<0, 0, 0>> => call.ret = "Black")
        /\ (call.arg = <<255, 255, 255>> => call.ret = "White")

\* (0, 0, 64) is as far from Black as from Navy, and has been named Black,
\* the earlier of the two.
C6_Witness ==
    /\ call.fn = "get_color_name" /\ call.done /\ call.arg = <<0, 0, 64>>
    /\ SquaredDistance(call.arg, <<0, 0, 0>>) = SquaredDistance(call.arg, <<0, 0, 128>>)
    /\ call.ret = "Black"

\* The pixels the skin mask selects in the image a call decoded.
SkinOf(c) == SkinPixels(SkinMask(ImageHSV(c.image)))

\* The call decoded its image: cv2.imread returned one.
Decoded(c) == c.image # NoImage

\* The paths the call with this id wrote.
WrittenBy(id) == {w.path : w \in {x \in writes : x.call = id}}

\* C2: on a decodable image whose skin mask selects no pixel,
\* detect_skin_tone does not raise: the average skin colour of the metadata
\* is the dominant colour, and the tone is the class of that colour's
\* lightness.  When the mask selects a pixel the average skin colour is the
\* (integer) mean of each channel over the masked pixels.
C2_EmptyMaskFallsBack ==
    \A c \in CallsOf("detect_skin_tone") :
        (c.pc = "done" /\ Decoded(c)) =>
            LET m == c.ret.metadata
            IN  /\ SkinOf(c) = {} =>
                      /\ c.ret.status = "ok"
                      /\ m.avg_skin_color = m.dominant_color
                      /\ m.lightness = LabLightness(m.dominant_color.rgb)
                      /\ c.ret.skin_tone = Classify(m.lightness)
                /\ (SkinOf(c) # {} /\ c.ret.status = "ok") =>
                      \A ch \in 1..3 :
                          LET sum == ChannelSum(c.image.pixels, SkinOf(c), ch)
                              n == Cardinality(SkinOf(c))
                              avg == m.avg_skin_color.rgb[ch]
                          IN  avg * n <= sum /\ sum < (avg + 1) * n

\* C3 as stated: adjust_skin_tone fails with an ImageProcessingError
\* whenever the skin mask of the input selects no pixel, whatever the target
\* tone, and then neither returns an output nor writes a file.
C3_EmptyMaskFails ==
    \A c \in CallsOf("adjust_skin_tone") :
        (c.pc = "done" /\ Decoded(c) /\ SkinOf(c) = {}) =>
            /\ c.ret.status = "error"
            /\ c.ret.error.error_code = IMAGE_PROCESSING_ERROR
            /\ WrittenBy(c.id) = {}

\* C3 amended: an empty skin mask does not make adjust_skin_tone fail.  For
\* each of the seven target tones every factor is 1 and the adjusted HSV
\* image is the input's; the call then saves it under the output path and
\* returns that path, and fails only if the save fails, with
\* IMAGE_PROCESSING_ERROR and the save's error as original_error.
C3_EmptyMaskPassesThrough ==
    \A c \in CallsOf("adjust_skin_tone") :
        (Decoded(c) /\ SkinOf(c) = {} /\ c.target_tone \in SkinTone) =>
            /\ c.pc \in {"save", "done"}
            /\ c.work.adjusted_hsv = ImageHSV(c.image)
            /\ (c.pc = "done" /\ c.ret.status = "ok") =>
                  /\ c.ret.path = c.file_path
                  /\ WrittenBy(c.id) = {c.file_path}
                  /\ fs[c.file_path] = SavedImage(c.work.adjusted_rgb)
            /\ (c.pc = "done" /\ c.ret.status # "ok") =>
                  /\ c.ret.status = "error"
                  /\ c.ret.error.error_code = IMAGE_PROCESSING_ERROR
                  /\ c.ret.error.details = OriginalError("OSError")

\* adjust_skin_tone has returned the path of an output file it wrote for an
\* image that has pixels and none in the skin mask.
C3_Witness ==
    \E c \in CallsOf("adjust_skin_tone") :
        /\ c.pc = "done" /\ Decoded(c) /\ SkinOf(c) = {}
        /\ c.ret.status = "ok"
        /\ c.ret.path \in DOMAIN fs

\* C4 as stated: every failure of detect_skin_tone or adjust_skin_tone is an
\* ApplicationError with the code IMAGE_PROCESSING_ERROR whose details hold
\* an original_error entry.
C4_ErrorsCarryOriginal ==
    \A c \in CallsOf("detect_skin_tone") \cup CallsOf("adjust_skin_tone") :
        (c.pc = "done" /\ c.ret.status = "error") =>
            /\ c.ret.error.error_code = IMAGE_PROCESSING_ERROR
            /\ "original_error" \in DOMAIN c.ret.error.details

\* C4 amended: every failure of detect_skin_tone or adjust_skin_tone is an
\* ApplicationError with the code IMAGE_PROCESSING_ERROR, and a call ends
\* with a result or with such an error.  Its details hold the original
\* error's text when an exception was caught during the processing, and are
\* empty when the image could not be decoded (cv2.imread returned None).
C4_ErrorsAreImageProcessing ==
    \A c \in CallsOf("detect_skin_tone") \cup CallsOf("adjust_skin_tone") :
        c.pc = "done" =>
            /\ c.ret.status \in {"ok", "error"}
            /\ c.ret.status = "error" =>
                  /\ c.ret.error.error_code = IMAGE_PROCESSING_ERROR
                  /\ Decoded(c) => DOMAIN c.ret.error.details = {"original_error"}
                  /\ ~ Decoded(c) => DOMAIN c.ret.error.details = {}

\* A call failed on an exception caught after the image was decoded, and
\* reports it as IMAGE_PROCESSING_ERROR with the original error.
C4_Witness ==
    \E c \in CallsOf("detect_skin_tone") :
        /\ c.pc = "done" /\ c.ret.status = "error" /\ Decoded(c)
        /\ c.ret.error.error_code = IMAGE_PROCESSING_ERROR
        /\ c.ret.error.details = OriginalError("Empty pixels when quantize.")

\* ext is what follows the last '.' of filename (all of it when it has no
\* '.'), in lowercase.
IsLastExtension(filename, ext) ==
    \E k \in 0..Len(filename) :
        /\ k > 0 => filename[k] = "."
        /\ \A j \in (k + 1)..Len(filename) : filename[j] # "."
        /\ k = 0 => \A j \in DOMAIN filename : filename[j] # "."
        /\ Len(ext) = Len(filename) - k
        /\ \A j \in DOMAIN ext : ext[j] = LowerChar(filename[k + j])

\* The allow-list of app/core/config.py.
InAllowList(ext) == ext \in { <<"j","p","g">>, <<"j","p","e","g">>, <<"p","n","g">> }

\* C7: save_upload takes what follows the last '.' of the file name,
\* lowercased, as the extension.  When the allow-list does not hold it the
\* call raises VALIDATION_ERROR and writes no file; when it does, the call
\* writes the bytes to one file of the upload directory, named by a uuid and
\* the extension, and returns its path.  A failure of the write is a
\* FILE_ERROR, never a VALIDATION_ERROR.
C7_SaveUpload ==
    \A c \in CallsOf("save_upload") :
        \E ext \in {Lower(SubSeq(c.filename, k, Len(c.filename))) :
                        k \in 1..(Len(c.filename) + 1)} :
            /\ IsLastExtension(c.filename, ext)
            /\ ~ InAllowList(ext) =>
                  /\ c.pc = "done"
                  /\ c.ret.status = "error"
                  /\ c.ret.error.error_code = VALIDATION_ERROR
                  /\ WrittenBy(c.id) = {}
            /\ InAllowList(ext) =>
                  /\ \E u \in Uuids :
                        c.file_path = upload_folder \o <<"/">> \o UuidStr(u)
                                          \o <<".">> \o ext
                  /\ WrittenBy(c.id) \subseteq {c.file_path}
                  /\ (c.pc = "done" /\ c.ret.status = "ok") =>
                        /\ c.ret.path = c.file_path
                        /\ WrittenBy(c.id) = {c.file_path}
                        /\ fs[c.file_path] = c.file_data
                  /\ (c.pc = "done" /\ c.ret.status # "ok") =>
                        /\ c.ret.status = "error"
                        /\ c.ret.error.error_code = FILE_ERROR
                        /\ "original_error" \in DOMAIN c.ret.error.details

\* An upload named a.b.jpeg has been saved under <uuid>.jpeg.
C7_Witness ==
    \E c \in CallsOf("save_upload") :
        /\ c.pc = "done"
        /\ c.filename = <<"a", ".", "b", ".", "j", "p", "e", "g">>
        /\ c.ret.status = "ok"
        /\ c.ret.path \in DOMAIN fs
        /\ fs[c.ret.path] = c.file_data
        /\ SplitDotLast(c.ret.path) = <<"j", "p", "e", "g">>

\* No two calls generated the same file name.
NoCollision == \A a, b \in generated : a.name = b.name => a.call = b.call

\* Every file of the upload directory was written by one call only, and the
\* output path of adjust_skin_tone is not its input path.
OneWriter ==
    /\ \A x \in DOMAIN fs : \E w \in writes : w.path = x
    /\ \A w1, w2 \in writes : w1.path = w2.path => w1.call = w2.call
    /\ \A c \in CallsOf("adjust_skin_tone") :
          /\ c.pc = "save" => c.file_path # c.image_path
          /\ c.image_path \notin WrittenBy(c.id)

\* A step changes no file whose writer is through, and writes no file that
\* another call has read.
WriteOnce ==
    /\ \A x \in DOMAIN fs :
          (\A w \in writes : w.path = x => Finished(w.call)) =>
              (x \in DOMAIN fs' /\ fs'[x] = fs[x])
    /\ \A w \in writes' \ writes :
          \A r \in reads : r.path = w.path => r.call = w.call

\* C8: in every interleaving of save_upload, detect_skin_tone and
\* adjust_skin_tone calls in which the generated file names are distinct, a
\* file of the upload directory is written by exactly one call and never
\* changed after that call, no call writes a path another call has read,
\* and adjust_skin_tone never writes its input file.
C8_NoSharedPaths ==
    /\ [](NoCollision => OneWriter)
    /\ [][NoCollision' => WriteOnce]_vars

\* Without a collision of names, an adjust_skin_tone call has written its
\* output while the other thread was in the middle of a call, and the file
\* it read is as its writer left it.
C8_Witness ==
    /\ NoCollision
    /\ \E p, q \in Procs :
          /\ p # q
          /\ procs[p].fn = "adjust_skin_tone" /\ procs[p].pc = "done"
          /\ procs[p].ret.status = "ok"
          /\ procs[p].ret.path \in DOMAIN fs
          /\ procs[p].image_path \in DOMAIN fs
          /\ procs[q].pc \notin {"idle", "done"}

\* The place of a tone in the order from the lightest to the darkest.
ToneRank(t) == CHOOSE i \in DOMAIN SkinToneOrder : SkinToneOrder[i] = t

\* C9 as stated: the target table has an entry for each of the seven tones,
\* each with hue 0, and from a darker tone to the next lighter one both the
\* target saturation and the target value increase: the target of a call is
\* above the target of the next darker tone in both.
C9_TargetsIncreaseWithLightness ==
    \A c \in CallsOf("adjust_skin_tone") :
        c.target_tone \in SkinTone =>
            /\ DOMAIN target_hsv_values = SkinTone
            /\ target_hsv_values[c.target_tone][1] = 0
            /\ \A t \in SkinTone :
                  ToneRank(t) = ToneRank(c.target_tone) + 1 =>
                      /\ target_hsv_values[c.target_tone][2] > target_hsv_values[t][2]
                      /\ target_hsv_values[c.target_tone][3] > target_hsv_values[t][3]

\* C9 amended: the target table has an entry for each of the seven tones,
\* each with hue 0, and from a darker tone to the next lighter one the
\* target value increases and the target saturation decreases: the target
\* of a call has more value and less saturation than the target of the next
\* darker tone.
C9_ValueUpSaturationDown ==
    \A c \in CallsOf("adjust_skin_tone") :
        c.target_tone \in SkinTone =>
            /\ DOMAIN target_hsv_values = SkinTone
            /\ Cardinality(DOMAIN target_hsv_values) = 7
            /\ target_hsv_values[c.target_tone][1] = 0
            /\ \A t \in SkinTone :
                  ToneRank(t) = ToneRank(c.target_tone) + 1 =>
                      /\ target_hsv_values[c.target_tone][2] < target_hsv_values[t][2]
                      /\ target_hsv_values[c.target_tone][3] > target_hsv_values[t][3]

\* adjust_skin_tone has brought a masked pixel to the Very Light target
\* value, which the Very Dark target could not reach.
C9_Witness ==
    \E c \in CallsOf("adjust_skin_tone") :
        /\ c.pc = "done" /\ c.ret.status = "ok" /\ c.target_tone = VERY_LIGHT
        /\ \E i \in SkinOf(c) :
              c.work.adjusted_hsv[i][3] = target_hsv_values[VERY_LIGHT][3]
                 /\ c.work.adjusted_hsv[i][3] > target_hsv_values[VERY_DARK][3]

Adjusted == {c \in CallsOf("adjust_skin_tone") :
               c.pc \in {"save", "done"} /\ Decoded(c) /\ c.target_tone \in SkinTone}

\* The number of channels of an array of pixels, FALSE when they differ.
Channels(px, k) == \A i \in DOMAIN px : DOMAIN px[i] = 1..k

\* C11: adjust_skin_tone changes only masked pixels.  In the adjusted HSV
\* image every pixel outside the skin mask, that is with hue outside 0..20
\* or saturation below 20 or value below 70, has exactly the H, S and V of
\* the input image, and the adjusted image has the width, the height and the
\* three channels of the input image, for every image and target tone.
C11_OnlyMaskedChange ==
    \A c \in Adjusted :
        LET image_hsv == ImageHSV(c.image)
            adjusted_hsv == c.work.adjusted_hsv
            adjusted_rgb == c.work.adjusted_rgb
        IN  /\ DOMAIN adjusted_hsv = DOMAIN image_hsv
            /\ \A i \in DOMAIN image_hsv :
                  LET outside == \/ image_hsv[i][1] \notin 0..20
                                 \/ image_hsv[i][2] < 20
                                 \/ image_hsv[i][3] < 70
                  IN  /\ outside <=> i \notin SkinOf(c)
                      /\ outside => adjusted_hsv[i] = image_hsv[i]
            /\ adjusted_rgb.height = c.image.height
            /\ adjusted_rgb.width = c.image.width
            /\ DOMAIN adjusted_rgb.pixels = DOMAIN c.image.pixels
            /\ DOMAIN c.image.pixels = 1..(c.image.height * c.image.width)
            /\ Channels(c.image.pixels, 3)
            /\ Channels(adjusted_hsv, 3)
            /\ Channels(adjusted_rgb.pixels, 3)

\* adjust_skin_tone has returned for an image of two pixels, one masked and
\* changed, the other outside the mask for its value alone and unchanged.
C11_Witness ==
    \E c \in Adjusted :
        /\ c.pc = "done" /\ c.ret.status = "ok"
        /\ c.image.height * c.image.width = 2
        /\ \E i \in SkinOf(c) : c.work.adjusted_hsv[i] # ImageHSV(c.image)[i]
        /\ \E i \in DOMAIN c.image.pixels \ SkinOf(c) :
              LET hsv == ImageHSV(c.image)[i]
              IN  /\ hsv[1] \in 0..20 /\ hsv[2] >= 20 /\ hsv[3] < 70
                  /\ c.work.adjusted_hsv[i] = hsv

\* C12: whenever the skin mask is not empty, the means of saturation and of
\* value over the masked pixels are at least 20 and 70, so only the hue mean
\* can be 0 and only the hue factor can fall back to 1; and as every target
\* hue is 0, every masked pixel has hue 0 in the adjusted HSV image, for
\* every target tone and every original hue.
C12_MaskedHueZero ==
    \A c \in Adjusted :
        LET image_hsv == ImageHSV(c.image)
            skin == SkinOf(c)
            n == Cardinality(skin)
        IN  skin # {} =>
               /\ ChannelSum(image_hsv, skin, 2) >= 20 * n
               /\ ChannelSum(image_hsv, skin, 3) >= 70 * n
               /\ \A t \in SkinTone : target_hsv_values[t][1] = 0
               /\ \A i \in skin : c.work.adjusted_hsv[i][1] = 0

\* adjust_skin_tone has returned for an image whose masked pixels have a
\* positive hue mean: a masked pixel of hue above 0 now has hue 0, and
\* its saturation and value were scaled.
C12_Witness ==
    \E c \in Adjusted :
        /\ c.pc = "done" /\ c.ret.status = "ok"
        /\ ChannelSum(ImageHSV(c.image), SkinOf(c), 1) > 0
        /\ \E i \in SkinOf(c) :
              LET hsv == ImageHSV(c.image)[i]
              IN  /\ hsv[1] > 0
                  /\ c.work.adjusted_hsv[i][1] = 0
                  /\ c.work.adjusted_hsv[i][2] # hsv[2]
                  /\ c.work.adjusted_hsv[i][3] # hsv[3]

=============================================================================
